---- MODULE Spec2Model ----
(***************************************************************************)
(* kwp: a parser for positive / negative keyword input ("+foo,-bar,+baz") *)
(* and a product matcher built on its result (src/src/lib.rs).            *)
(*                                                                         *)
(* A string is a sequence of characters; a character is a one-character   *)
(* TLA+ string, except U+017F (LATIN SMALL LETTER LONG S), written         *)
(* "U017F".                                                                *)
(***************************************************************************)
EXTENDS Integers, Sequences, FiniteSets, TLC

VARIABLES
    input,          \* Parser.input
    prefixes,       \* Parser.prefixes: [positive, negative]
    retain_prefix,  \* Parser.retain_prefix
    keywords,       \* the Keywords value the caller holds (returned by parse, or built by hand)
    parse_log,      \* history: retain_prefix at each of the latest two parse calls
    products,       \* the products list the caller passes to match_products
    found,          \* the value returned by the latest match_products call
    op              \* the operation that produced this state

vars == <<input, prefixes, retain_prefix, keywords, parse_log, products, found, op>>

----------------------------------------------------------------------------
(* Bounds of the model.                                                    *)

MaxInputLen == 4
MaxPrefixLen == 2
MaxCandidateLen == 2
MaxKeywordLen == 1
MaxProducts == 2
MaxKeywords == 2

InputAlphabet == {"+", "-", "a", ","}
PrefixAlphabet == {"+", "-"}
MatchAlphabet == {"s", "S", "U017F"}

RECURSIVE StringsUpTo(_, _)
StringsUpTo(A, n) ==
    IF n = 0 THEN {<<>>}
    ELSE LET shorter == StringsUpTo(A, n - 1)
         IN  shorter \cup {Append(s, c) : s \in {t \in shorter : Len(t) = n - 1}, c \in A}

RECURSIVE ListsUpTo(_, _)
ListsUpTo(S, n) ==
    IF n = 0 THEN {<<>>}
    ELSE LET shorter == ListsUpTo(S, n - 1)
         IN  shorter \cup {Append(l, x) : l \in {t \in shorter : Len(t) = n - 1}, x \in S}

Inputs == StringsUpTo(InputAlphabet, MaxInputLen)
PrefixStrings == StringsUpTo(PrefixAlphabet, MaxPrefixLen) \ {<<>>}
PrefixPairs == [positive : PrefixStrings, negative : PrefixStrings]
ProductLists == ListsUpTo(StringsUpTo(MatchAlphabet, MaxCandidateLen), MaxProducts)
KeywordLists == ListsUpTo(StringsUpTo(MatchAlphabet, MaxKeywordLen), MaxKeywords)

----------------------------------------------------------------------------
(* String primitives of the standard library, as the parser uses them.     *)

\* str::starts_with
starts_with(e, prefix) ==
    /\ Len(prefix) <= Len(e)
    /\ SubSeq(e, 1, Len(prefix)) = prefix

\* str::contains: y occurs in x as a contiguous substring
contains(x, y) ==
    \E i \in 0..(Len(x) - Len(y)) : SubSeq(x, i + 1, i + Len(y)) = y

\* (mutation of replace: only the leading occurrence is dropped, as strip_prefix does)
replace_leading_only(e, prefix) ==
    IF starts_with(e, prefix) THEN SubSeq(e, Len(prefix) + 1, Len(e)) ELSE e

\* str::replace(prefix, ""): scan left to right, drop each match and resume
\* after it (matches do not overlap), copy everything else.
RECURSIVE replace(_, _)
replace(e, prefix) ==
    IF Len(e) < Len(prefix) \/ prefix = <<>> THEN e
    ELSE IF starts_with(e, prefix)
         THEN replace(SubSeq(e, Len(prefix) + 1, Len(e)), prefix)
         ELSE <<Head(e)>> \o replace(Tail(e), prefix)

\* (mutation of split: empty pieces are dropped)
RECURSIVE split_dropping_empty(_)
split_dropping_empty(s) ==
    LET commas == {i \in 1..Len(s) : s[i] = ","}
    IN  IF commas = {} THEN (IF s = <<>> THEN <<>> ELSE <<s>>)
        ELSE LET i == CHOOSE c \in commas : \A d \in commas : c <= d
             IN  (IF i = 1 THEN <<>> ELSE <<SubSeq(s, 1, i - 1)>>)
                     \o split_dropping_empty(SubSeq(s, i + 1, Len(s)))

\* str::split(","): the pieces between the commas; n commas give n + 1 pieces,
\* so the empty string gives the one piece "".
RECURSIVE split(_)
split(s) ==
    LET commas == {i \in 1..Len(s) : s[i] = ","}
    IN  IF commas = {} THEN <<s>>
        ELSE LET i == CHOOSE c \in commas : \A d \in commas : c <= d
             IN  <<SubSeq(s, 1, i - 1)>> \o split(SubSeq(s, i + 1, Len(s)))

\* char::to_lowercase on the characters of the model
to_lowercase_char(c) == IF c = "S" THEN "s" ELSE c

\* str::to_lowercase
to_lowercase(s) == [i \in 1..Len(s) |-> to_lowercase_char(s[i])]

----------------------------------------------------------------------------
(* The parser.                                                             *)

DefaultPrefixes == [positive |-> <<"+">>, negative |-> <<"-">>]

EmptyKeywords == [positive |-> <<>>, negative |-> <<>>, other |-> <<>>]

\* Parser::parse_with_prefix
parse_with_prefix(tokens, prefix, retain) ==
    LET kept == SelectSeq(tokens, LAMBDA e : starts_with(e, prefix))
    IN  [i \in 1..Len(kept) |-> IF ~retain THEN replace(kept[i], prefix) ELSE kept[i]]

\* (mutation of parse_other: a token is left out only when it equals a keyword)
parse_other_by_equality(tokens, positive, negative) ==
    SelectSeq(tokens, LAMBDA x :
        /\ ~(\E i \in 1..Len(positive) : x = positive[i])
        /\ ~(\E i \in 1..Len(negative) : x = negative[i]))

\* Parser::parse, the `other` pass
parse_other(tokens, positive, negative) ==
    SelectSeq(tokens, LAMBDA x :
        /\ ~(\E i \in 1..Len(positive) : contains(x, positive[i]))
        /\ ~(\E i \in 1..Len(negative) : contains(x, negative[i])))

\* (mutation of parse_result: the negative pass skips the positive tokens)
parse_result_exclusive(in, pre, retain) ==
    LET tokens == split(in)
        positive == parse_with_prefix(tokens, pre.positive, retain)
        rest == SelectSeq(tokens, LAMBDA e : ~starts_with(e, pre.positive))
        negative == parse_with_prefix(rest, pre.negative, retain)
    IN  [positive |-> positive,
         negative |-> negative,
         other |-> parse_other(tokens, positive, negative)]

\* Parser::parse, the value returned
parse_result(in, pre, retain) ==
    LET tokens == split(in)
        positive == parse_with_prefix(tokens, pre.positive, retain)
        negative == parse_with_prefix(tokens, pre.negative, retain)
    IN  [positive |-> positive,
         negative |-> negative,
         other |-> parse_other(tokens, positive, negative)]

\* Parser::new; the caller holds no Keywords value yet
Init ==
    /\ input \in Inputs
    /\ prefixes \in PrefixPairs
    /\ retain_prefix = FALSE
    /\ keywords = EmptyKeywords
    /\ parse_log = <<>>
    /\ products = <<>>
    /\ found = <<>>
    /\ op = "new"

\* Parser::should_retain_prefix
should_retain_prefix(bool) ==
    /\ retain_prefix' = bool
    /\ op' = "should_retain_prefix"
    /\ UNCHANGED <<input, prefixes, keywords, parse_log, products, found>>

\* (mutation of parse: the input is moved out of the parser instead of cloned)
parse_taking_input ==
    /\ keywords' = parse_result(input, prefixes, retain_prefix)
    /\ input' = <<>>
    /\ parse_log' = IF parse_log = <<>> THEN <<retain_prefix>>
                     ELSE <<parse_log[Len(parse_log)], retain_prefix>>
    /\ op' = "parse"
    /\ UNCHANGED <<prefixes, retain_prefix, products, found>>

\* Parser::parse (&self: the parser is read, not written)
parse ==
    /\ keywords' = parse_result(input, prefixes, retain_prefix)
    /\ parse_log' = IF parse_log = <<>> THEN <<retain_prefix>>
                     ELSE <<parse_log[Len(parse_log)], retain_prefix>>
    /\ op' = "parse"
    /\ UNCHANGED <<input, prefixes, retain_prefix, products, found>>

Next ==
    \/ \E bool \in BOOLEAN : should_retain_prefix(bool)
    \/ parse

Spec == Init /\ [][Next]_vars

----------------------------------------------------------------------------
(* The matcher.  match_products reads its two arguments only, never the    *)
(* parser it is called on, so it is checked for every Keywords value a     *)
(* caller can pass, under a specification of its own.                      *)

\* (mutation of match_loop: the negative keywords are not consulted)
RECURSIVE match_loop_ignoring_negative(_, _, _)
match_loop_ignoring_negative(prods, kw, acc) ==
    IF prods = <<>> THEN acc
    ELSE LET product == Head(prods)
             p_lower == to_lowercase(product)
             hit == \E i \in 1..Len(kw.positive) :
                        contains(to_lowercase(p_lower), to_lowercase(kw.positive[i]))
         IN  match_loop_ignoring_negative(Tail(prods), kw,
                                          IF hit THEN Append(acc, product) ELSE acc)

\* Parser::match_products, the loop over products
RECURSIVE match_loop(_, _, _)
match_loop(prods, kw, acc) ==
    IF prods = <<>> THEN acc
    ELSE LET product == Head(prods)
             p_lower == to_lowercase(product)
             hit == /\ \E i \in 1..Len(kw.positive) :
                           contains(to_lowercase(p_lower), to_lowercase(kw.positive[i]))
                    /\ ~(\E i \in 1..Len(kw.negative) :
                           contains(p_lower, to_lowercase(kw.negative[i])))
         IN  match_loop(Tail(prods), kw, IF hit THEN Append(acc, product) ELSE acc)

\* a caller that builds the Keywords value itself (its fields are public)
InitMatch ==
    /\ input = <<>>
    /\ prefixes = DefaultPrefixes
    /\ retain_prefix = FALSE
    /\ keywords \in [positive : KeywordLists, negative : KeywordLists, other : {<<>>}]
    /\ parse_log = <<>>
    /\ products \in ProductLists
    /\ found = <<>>
    /\ op = "new"

\* Parser::match_products
match_products ==
    /\ found' = match_loop(products, keywords, <<>>)
    /\ op' = "match_products"
    /\ UNCHANGED <<input, prefixes, retain_prefix, keywords, parse_log, products>>

NextMatch == match_products

SpecMatch == InitMatch /\ [][NextMatch]_vars

----------------------------------------------------------------------------
(* Vocabulary of the properties, stated position by position.              *)

Range(f) == {f[i] : i \in DOMAIN f}

\* p is a literal prefix of t
HasPrefix(t, p) == Len(p) <= Len(t) /\ \A i \in 1..Len(p) : t[i] = p[i]

\* y occurs in x at position i
OccursAt(y, x, i) == i + Len(y) - 1 <= Len(x) /\ \A j \in 1..Len(y) : x[i + j - 1] = y[j]

\* y is a substring of x
OccursIn(y, x) == \E i \in 1..(Len(x) + 1) : OccursAt(y, x, i)

\* the raw tokens of s: the text between consecutive commas
CommaPositions(s) == {i \in 1..Len(s) : s[i] = ","}

Boundary(s, j) ==
    IF j = 0 THEN 0
    ELSE IF j > Cardinality(CommaPositions(s)) THEN Len(s) + 1
    ELSE CHOOSE i \in CommaPositions(s) :
             Cardinality({d \in CommaPositions(s) : d < i}) = j - 1

RawTokens(s) ==
    [j \in 1..(Cardinality(CommaPositions(s)) + 1) |->
        SubSeq(s, Boundary(s, j - 1) + 1, Boundary(s, j) - 1)]

\* the elements of seq at the positions in keep, in order
Restrict(seq, keep) ==
    LET F[n \in 0..Len(seq)] ==
            IF n = 0 THEN <<>>
            ELSE IF n \in keep THEN Append(F[n - 1], seq[n]) ELSE F[n - 1]
    IN  F[Len(seq)]

\* a is a subsequence of b (order kept, not necessarily contiguous)
RECURSIVE IsSubsequence(_, _)
IsSubsequence(a, b) ==
    IF a = <<>> THEN TRUE
    ELSE IF b = <<>> THEN FALSE
    ELSE IF Head(a) = Head(b) THEN IsSubsequence(Tail(a), Tail(b))
    ELSE IsSubsequence(a, Tail(b))

\* non-empty, distinct prefixes, neither a prefix or substring of the other
WellFormed(pre) ==
    /\ pre.positive # <<>> /\ pre.negative # <<>>
    /\ ~OccursIn(pre.positive, pre.negative)
    /\ ~OccursIn(pre.negative, pre.positive)

MarkedPositions(T, p) == {i \in 1..Len(T) : HasPrefix(T[i], p)}

UnmarkedPositions(T, pre) ==
    (1..Len(T)) \ (MarkedPositions(T, pre.positive) \cup MarkedPositions(T, pre.negative))

\* the starts of the occurrences of p that a left-to-right replace-all removes
RECURSIVE RemovedStarts(_, _, _)
RemovedStarts(t, p, from) ==
    IF from + Len(p) - 1 > Len(t) THEN {}
    ELSE IF OccursAt(p, t, from) THEN {from} \cup RemovedStarts(t, p, from + Len(p))
    ELSE RemovedStarts(t, p, from + 1)

\* t with every such occurrence of p deleted
Removed(t, p) ==
    LET starts == RemovedStarts(t, p, 1)
        covered == {j \in 1..Len(t) : \E b \in starts : b <= j /\ j < b + Len(p)}
    IN  Restrict(t, (1..Len(t)) \ covered)

----------------------------------------------------------------------------
(* Properties of the parser (specification Spec).                          *)

\* C1: under non-empty, distinct, non-overlapping prefixes every raw token is
\* in exactly one bucket: positive holds one keyword per token starting with
\* the positive prefix, negative one per token starting with the negative
\* prefix, other exactly the remaining tokens, so the three lengths add up to
\* the number of raw tokens.
C1_Partition ==
    (op = "parse" /\ WellFormed(prefixes)) =>
        LET T == RawTokens(input)
        IN  /\ Len(keywords.positive) = Cardinality(MarkedPositions(T, prefixes.positive))
            /\ Len(keywords.negative) = Cardinality(MarkedPositions(T, prefixes.negative))
            /\ keywords.other = Restrict(T, UnmarkedPositions(T, prefixes))
            /\ Len(keywords.positive) + Len(keywords.negative) + Len(keywords.other) = Len(T)

\* C2: every keyword emitted into the positive or the negative bucket is the
\* raw token itself when retain_prefix is set, and otherwise the raw token
\* with all (replace-all: left to right, non-overlapping) occurrences of the
\* bucket's prefix deleted, not only the leading one.
C2_Emitted(bucket, p) ==
    LET T == RawTokens(input)
        M == Restrict(T, MarkedPositions(T, p))
    IN  /\ Len(bucket) = Len(M)
        /\ \A k \in 1..Len(M) :
               bucket[k] = IF retain_prefix THEN M[k] ELSE Removed(M[k], p)

C4_UnmarkedInOther ==
    (op = "parse" /\ WellFormed(prefixes)) =>
        LET T == RawTokens(input)
        IN  IsSubsequence(Restrict(T, UnmarkedPositions(T, prefixes)), keywords.other)

\* C5: under non-empty, non-overlapping prefixes no raw token is in two
\* buckets: a token that starts with the positive or the negative prefix is
\* never in other, and no token is emitted into both positive and negative.
C5_AtMostOneBucket ==
    (op = "parse" /\ WellFormed(prefixes)) =>
        LET T == RawTokens(input)
        IN  \A i \in 1..Len(T) :
                /\ (HasPrefix(T[i], prefixes.positive) \/ HasPrefix(T[i], prefixes.negative))
                       => T[i] \notin Range(keywords.other)
                /\ ~(HasPrefix(T[i], prefixes.positive) /\ HasPrefix(T[i], prefixes.negative))

\* C7 as stated: the empty input gives three empty buckets, and a prefix that
\* no token starts with gives an empty bucket.
C7_EmptyInputAllEmpty ==
    op = "parse" =>
        /\ input = <<>> => keywords = EmptyKeywords
        /\ MarkedPositions(RawTokens(input), prefixes.positive) = {} => keywords.positive = <<>>
        /\ MarkedPositions(RawTokens(input), prefixes.negative) = {} => keywords.negative = <<>>

\* C7 amended: the empty input gives empty positive and negative buckets and
\* an other bucket holding the one empty token; a prefix that no token starts
\* with gives an empty bucket.
C7_EmptyInputOneEmptyToken ==
    op = "parse" =>
        /\ input = <<>> =>
               /\ keywords.positive = <<>>
               /\ keywords.negative = <<>>
               /\ keywords.other = << <<>> >>
        /\ MarkedPositions(RawTokens(input), prefixes.positive) = {} => keywords.positive = <<>>
        /\ MarkedPositions(RawTokens(input), prefixes.negative) = {} => keywords.negative = <<>>

C7_Witness == op = "parse" /\ input = <<>> /\ keywords.other = << <<>> >>

\* C8: parse leaves input, prefixes and retain_prefix as they are, a parse
\* that follows an earlier parse under the same flag returns the same
\* Keywords value, and the first parse of a parser whose flag was never set
\* runs with the flag false.
C8_Idempotent ==
    [][op' = "parse" =>
          /\ input' = input /\ prefixes' = prefixes /\ retain_prefix' = retain_prefix
          /\ (parse_log # <<>> /\ parse_log[Len(parse_log)] = retain_prefix)
                 => keywords' = keywords
          /\ op = "new" => parse_log' = <<FALSE>>]_vars

\* two parse calls under the same flag, with a non-trivial result
C8_Witness ==
    /\ op = "parse" /\ Len(parse_log) = 2 /\ parse_log[1] = parse_log[2]
    /\ keywords.positive # <<>> /\ keywords.other # <<>>

\* C9: each of the positive and negative buckets is, independently of the
\* other, the image in input order of the raw tokens that start with its
\* prefix, one entry per occurrence; a token that starts with both prefixes
\* is in both buckets.
C9_Image(bucket, p) ==
    LET T == RawTokens(input)
        M == Restrict(T, MarkedPositions(T, p))
    IN  bucket = [k \in 1..Len(M) |-> IF retain_prefix THEN M[k] ELSE replace(M[k], p)]

C9_BucketSelection ==
    op = "parse" =>
        /\ C9_Image(keywords.positive, prefixes.positive)
        /\ C9_Image(keywords.negative, prefixes.negative)

\* distinct overlapping prefixes, a token starting with both, two positive tokens
C9_Witness ==
    /\ op = "parse" /\ retain_prefix /\ prefixes.positive # prefixes.negative
    /\ \E t \in Range(RawTokens(input)) :
           /\ HasPrefix(t, prefixes.positive) /\ HasPrefix(t, prefixes.negative)
           /\ t \in Range(keywords.positive) /\ t \in Range(keywords.negative)
    /\ Len(keywords.positive) = 2 /\ keywords.positive[1] # keywords.positive[2]

\* C10: other is, in input order, the raw tokens of which no keyword emitted
\* into positive or negative (as emitted: stripped or retained) is a
\* substring; the test is containment, not equality or prefix.
C10_OtherBySubstring ==
    op = "parse" =>
        LET T == RawTokens(input)
            emitted == Range(keywords.positive) \cup Range(keywords.negative)
        IN  keywords.other =
                Restrict(T, {i \in 1..Len(T) : \A y \in emitted : ~OccursIn(y, T[i])})

\* a token kept out of other by a keyword that is inside it, not at its start
C10_Witness ==
    /\ op = "parse"
    /\ \E x \in Range(RawTokens(input)) :
           /\ x \notin Range(keywords.other)
           /\ \A y \in Range(keywords.positive) \cup Range(keywords.negative) :
                  y # <<>> /\ ~HasPrefix(x, y)
    /\ keywords.other # <<>>

----------------------------------------------------------------------------
(* Properties of the matcher (specification SpecMatch).                    *)

\* C3: match_products returns the candidates, in their order, duplicates and
\* original casing kept, of which some lower-cased positive keyword and no
\* lower-cased negative keyword is a substring once the candidate is
\* lower-cased; with no positive keyword it returns the empty sequence.
C3_Keep(c) ==
    /\ \E y \in Range(keywords.positive) : OccursIn(to_lowercase(y), to_lowercase(c))
    /\ \A y \in Range(keywords.negative) : ~OccursIn(to_lowercase(y), to_lowercase(c))

C3_MatchFilter ==
    op = "match_products" =>
        /\ found = Restrict(products, {i \in 1..Len(products) : C3_Keep(products[i])})
        /\ keywords.positive = <<>> => found = <<>>

\* one candidate kept in its mixed-case form, one rejected by a negative keyword only
C3_Witness ==
    /\ op = "match_products"
    /\ \A y \in Range(keywords.positive) \cup Range(keywords.negative) : y # <<>>
    /\ \E c \in Range(found) : to_lowercase(c) # c
    /\ \E c \in Range(products) \ Range(found) :
           \E y \in Range(keywords.positive) : OccursIn(to_lowercase(y), to_lowercase(c))

\* char::to_uppercase on the characters of the model (U+017F upper-cases to S)
to_uppercase_char(c) == IF c \in {"s", "U017F"} THEN "S" ELSE c

\* the strings obtained from a by putting some of its letters in the other case
CaseVariants(a) ==
    {b \in [1..Len(a) -> MatchAlphabet] :
        \A i \in 1..Len(a) : b[i] \in {a[i], to_lowercase_char(a[i]), to_uppercase_char(a[i])}}

ListCaseVariants(P) ==
    {Q \in [1..Len(P) -> UNION {CaseVariants(P[i]) : i \in 1..Len(P)}] :
        \A i \in 1..Len(P) : Q[i] \in CaseVariants(P[i])}

KeptPositions(P, K) == {i \in 1..Len(P) : match_loop(<<P[i]>>, K, <<>>) # <<>>}

\* C6: putting letters of the candidates or of the positive or negative
\* keywords in the other case does not change which candidate positions
\* match_products keeps.
C6_CaseInsensitive ==
    op = "match_products" =>
        /\ found = Restrict(products, KeptPositions(products, keywords))
        /\ \A P2 \in ListCaseVariants(products) :
           \A pos2 \in ListCaseVariants(keywords.positive) :
           \A neg2 \in ListCaseVariants(keywords.negative) :
               KeptPositions(P2, [positive |-> pos2, negative |-> neg2, other |-> keywords.other])
                   = KeptPositions(products, keywords)

====
